---- MODULE Spec2Model ----
(***************************************************************************)
(* Model of the RTC signalling server (src/server.py): the room directory  *)
(* `rooms`, the session table `user_rooms`, the Socket.IO room membership   *)
(* that join_room/leave_room maintain, and the event handlers connect,      *)
(* disconnect, join, leave and message.  Every handler is one atomic step;  *)
(* the events a handler emits are recorded in `out`.                        *)
(***************************************************************************)
EXTENDS Integers, Sequences, FiniteSets, TLC

\* ------------------------------------------------------------------ bounds

\* connections, user ids, room ids and payloads the clients draw from, and the
\* number of join, leave and disconnect events one run handles (a message
\* changes neither mapping and is not counted)
NumConns == 3
NumUsers == 3
NumRooms == 2
NumPayloads == 1
MaxEvents == 3

\* the number of handlers that run concurrently
MaxThreads == 2

SidNames == <<"c1", "c2", "c3", "c4">>
UserNames == <<"u1", "u2", "u3", "u4">>
RoomNames == <<"r1", "r2", "r3">>
PayloadNames == <<"p1", "p2">>

Sids == {SidNames[i] : i \in 1..NumConns}
UserIds == {UserNames[i] : i \in 1..NumUsers}
RoomIds == {RoomNames[i] : i \in 1..NumRooms}
Payloads == {PayloadNames[i] : i \in 1..NumPayloads}

\* ------------------------------------------------------------ Python values

\* data.get(key) of a key the client did not send
None == "None"

\* The values a client may send for userId / roomId: absent, empty, or an id.
UserInputs == UserIds \cup {None, ""}
RoomInputs == RoomIds \cup {None, ""}

\* Python truthiness of `not x` for None and str
Falsy(x) == x = None \/ x = ""

\* An insertion-ordered dict {userId: sid} is a sequence of entries with
\* pairwise distinct keys.
EmptyDict == <<>>

DictHas(d, key) == \E i \in 1..Len(d) : d[i].k = key

DictGet(d, key) == d[CHOOSE i \in 1..Len(d) : d[i].k = key].v

\* DictSet that appends without looking for the key
DictSetAppend(d, key, val) == Append(d, [k |-> key, v |-> val])

\* d[key] = val : an existing key keeps its position, a new key is appended
DictSet(d, key, val) ==
    IF DictHas(d, key)
    THEN [i \in 1..Len(d) |-> IF d[i].k = key THEN [k |-> key, v |-> val] ELSE d[i]]
    ELSE Append(d, [k |-> key, v |-> val])

\* del d[key]
DictDel(d, key) ==
    LET Keep(e) == e.k # key IN SelectSeq(d, Keep)

\* list(d.keys())
DictKeys(d) == [i \in 1..Len(d) |-> d[i].k]

\* ------------------------------------------------------------------- state

VARIABLES
    rooms,       \* {roomId: {userId: sid}}
    user_rooms,  \* {sid: {userId, roomId}}
    sio_rooms,   \* Socket.IO room membership: room name -> set of sids
    conn,        \* per sid: "new" (not yet connected), "open", "closed"
    out,         \* the emit calls of the last step, in program order
    last,        \* history: the event handled by the last step
    joined,      \* history: per sid, the (userId, roomId) pairs it has joined
    left,        \* history: the sids that have sent a leave event
    events,      \* history: the number of client events handled so far
    test,        \* client_test.py auto_test: its arguments num_users, room_id
    client,      \* client_test.py SignalingClient: per sid, user_id and room_id
    pc,          \* per sid: the statement its running handler is about to execute
    req,         \* per sid: the locals user_id, room_id of its running handler
    snap         \* history: the mappings when the running handlers began, and
                 \* the events they handle

vars == <<rooms, user_rooms, sio_rooms, conn, out, last, joined, left, events,
          test, client, pc, req, snap>>

threads == <<pc, req, snap>>

NoData == [userId |-> None, roomId |-> None, users |-> <<>>, payload |-> None]

\* One emit call: the event, its data and the connections it is delivered to.
Emit(event, to, data) == [event |-> event, to |-> to, data |-> data]

\* emit(event, data) inside a handler: to the calling connection only
EmitSelf(sid, event, data) == Emit(event, {sid}, data)

\* EmitRoom with skip_sid forgotten
EmitRoomNoSkip(subs, room_id, skip, event, data) ==
    Emit(event, subs[room_id], data)

\* emit(event, data, room=room_id, skip_sid=skip): to every subscriber of the
\* Socket.IO room except skip (skip = None: nobody is skipped)
EmitRoom(subs, room_id, skip, event, data) ==
    Emit(event, subs[room_id] \ {skip}, data)

\* join_room(room_id) for the calling connection
JoinRoom(subs, sid, room_id) == [subs EXCEPT ![room_id] = @ \cup {sid}]

\* leave_room(room_id) for the calling connection
LeaveRoom(subs, sid, room_id) == [subs EXCEPT ![room_id] = @ \ {sid}]

\* what Socket.IO does with a closed connection: it leaves every room
DropFromAllRooms(subs, sid) == [r \in DOMAIN subs |-> subs[r] \ {sid}]

\* The server after start-up: both mappings empty, no connection yet.
ServerInit ==
    /\ rooms = <<>>
    /\ user_rooms = <<>>
    /\ sio_rooms = [r \in RoomInputs |-> {}]
    /\ conn = [c \in Sids |-> "new"]
    /\ out = <<>>
    /\ last = [op |-> "init", sid |-> None, data |-> NoData]
    /\ joined = [c \in Sids |-> {}]
    /\ left = {}
    /\ events = 0

\* SignalingClient.__init__: self.user_id = None, self.room_id = None
ClientInit == [c \in Sids |-> [user_id |-> None, room_id |-> None]]

NoReq == [op |-> "none", userId |-> None, roomId |-> None]

NoSnap == [rooms |-> <<>>, user_rooms |-> <<>>, ops |-> <<>>]

\* No handler is running.
ThreadInit ==
    /\ pc = [c \in Sids |-> "idle"]
    /\ req = [c \in Sids |-> NoReq]
    /\ snap = NoSnap

\* The server alone; its clients are arbitrary and auto_test is not running.
Init ==
    /\ ServerInit
    /\ ThreadInit
    /\ test = [num_users |-> 0, room_id |-> None]
    /\ client = ClientInit

\* ---------------------------------------------------------------- handlers

\* Invalid with the room_id test forgotten
InvalidUserOnly(user_id, room_id) == Falsy(user_id)

\* if not user_id or not room_id
Invalid(user_id, room_id) == Falsy(user_id) \/ Falsy(room_id)

ErrorData == [NoData EXCEPT !.payload = "userId and roomId are required"]

UserRoom(user_id, room_id) == [NoData EXCEPT !.userId = user_id, !.roomId = room_id]

\* if room_id not in rooms: rooms[room_id] = {}
CreateRoom(rs, room_id) ==
    IF room_id \in DOMAIN rs
    THEN rs
    ELSE [r \in DOMAIN rs \cup {room_id} |-> IF r = room_id THEN EmptyDict ELSE rs[r]]

\* rooms[room_id][user_id] = sid
AddUser(rs, sid, user_id, room_id) ==
    [rs EXCEPT ![room_id] = DictSet(@, user_id, sid)]

\* SetSession that also drops the sessions other connections hold for the
\* same (user_id, room_id)
SetSessionEvict(ur, sid, user_id, room_id) ==
    LET keep == {c \in DOMAIN ur :
                    ur[c] # [userId |-> user_id, roomId |-> room_id]} \cup {sid}
    IN [c \in keep |->
           IF c = sid THEN [userId |-> user_id, roomId |-> room_id] ELSE ur[c]]

\* user_rooms[sid] = {'userId': user_id, 'roomId': room_id}
SetSession(ur, sid, user_id, room_id) ==
    [c \in DOMAIN ur \cup {sid} |->
        IF c = sid THEN [userId |-> user_id, roomId |-> room_id] ELSE ur[c]]

\* UsersInRoom taking the dict's values (the sids) for its keys
UsersInRoomValues(rs, room_id) == [i \in 1..Len(rs[room_id]) |-> rs[room_id][i].v]

\* users_in_room = list(rooms[room_id].keys())
UsersInRoom(rs, room_id) == DictKeys(rs[room_id])

\* RemoveMember without `if not rooms[room_id]: del rooms[room_id]`
RemoveMemberKeepsRoom(rs, user_id, room_id) ==
    IF room_id \in DOMAIN rs /\ DictHas(rs[room_id], user_id)
    THEN [rs EXCEPT ![room_id] = DictDel(@, user_id)]
    ELSE rs

\* the first half of _remove_user_from_room: the member entry and the room
RemoveMember(rs, user_id, room_id) ==
    IF room_id \in DOMAIN rs /\ DictHas(rs[room_id], user_id)
    THEN LET d == DictDel(rs[room_id], user_id) IN
         IF d = EmptyDict
         THEN [r \in DOMAIN rs \ {room_id} |-> rs[r]]
         ELSE [rs EXCEPT ![room_id] = d]
    ELSE rs

\* RemoveSession with `del user_rooms[sid]` forgotten
RemoveSessionNoop(ur, sid) == ur

\* the second half of _remove_user_from_room: the session of the connection
RemoveSession(ur, sid) ==
    IF sid \in DOMAIN ur THEN [c \in DOMAIN ur \ {sid} |-> ur[c]] ELSE ur

handle_connect(sid) ==
    /\ conn[sid] = "new"
    /\ conn' = [conn EXCEPT ![sid] = "open"]
    /\ out' = <<EmitSelf(sid, "connected", NoData)>>
    /\ UNCHANGED <<rooms, user_rooms, sio_rooms>>

\* handle_disconnect that, finding no session, scans `rooms` for the sid
handle_disconnect_scan(sid) ==
    /\ conn[sid] = "open"
    /\ conn' = [conn EXCEPT ![sid] = "closed"]
    /\ sio_rooms' = DropFromAllRooms(sio_rooms, sid)
    /\ IF sid \in DOMAIN user_rooms
       THEN LET user_id == user_rooms[sid].userId
                room_id == user_rooms[sid].roomId
            IN /\ rooms' = RemoveMember(rooms, user_id, room_id)
               /\ user_rooms' = RemoveSession(user_rooms, sid)
               /\ out' = <<EmitRoom(sio_rooms, room_id, sid, "user-left",
                                    UserRoom(user_id, room_id))>>
       ELSE /\ out' = <<>>
            /\ LET NotSid(e) == e.v # sid
                   kept == {r \in DOMAIN rooms :
                               SelectSeq(rooms[r], NotSid) # EmptyDict}
               IN rooms' = [r \in kept |-> SelectSeq(rooms[r], NotSid)]
            /\ UNCHANGED user_rooms

handle_disconnect(sid) ==
    /\ conn[sid] = "open"
    /\ conn' = [conn EXCEPT ![sid] = "closed"]
    /\ sio_rooms' = DropFromAllRooms(sio_rooms, sid)
    /\ IF sid \in DOMAIN user_rooms
       THEN LET user_id == user_rooms[sid].userId
                room_id == user_rooms[sid].roomId
            IN /\ rooms' = RemoveMember(rooms, user_id, room_id)
               /\ user_rooms' = RemoveSession(user_rooms, sid)
               /\ out' = <<EmitRoom(sio_rooms, room_id, sid, "user-left",
                                    UserRoom(user_id, room_id))>>
       ELSE /\ out' = <<>>
            /\ UNCHANGED <<rooms, user_rooms>>

handle_join(sid, data) ==
    /\ conn[sid] = "open"
    /\ UNCHANGED conn
    /\ LET user_id == data.userId
           room_id == data.roomId
       IN IF Invalid(user_id, room_id)
          THEN /\ out' = <<EmitSelf(sid, "error", ErrorData)>>
               /\ UNCHANGED <<rooms, user_rooms, sio_rooms>>
          ELSE LET rs == AddUser(CreateRoom(rooms, room_id), sid, user_id, room_id)
                   subs == JoinRoom(sio_rooms, sid, room_id)
                   users_in_room == UsersInRoom(rs, room_id)
               IN /\ rooms' = rs
                  /\ user_rooms' = SetSession(user_rooms, sid, user_id, room_id)
                  /\ sio_rooms' = subs
                  /\ out' = <<EmitSelf(sid, "joined",
                                  [UserRoom(user_id, room_id) EXCEPT !.users = users_in_room]),
                              EmitRoom(subs, room_id, sid, "user-joined",
                                       UserRoom(user_id, room_id))>>

\* handle_leave that answers a leave of a non-member with `error`
handle_leave_strict(sid, data) ==
    /\ conn[sid] = "open"
    /\ UNCHANGED conn
    /\ LET user_id == data.userId
           room_id == data.roomId
       IN IF Invalid(user_id, room_id)
             \/ ~(room_id \in DOMAIN rooms /\ DictHas(rooms[room_id], user_id))
          THEN /\ out' = <<EmitSelf(sid, "error", ErrorData)>>
               /\ UNCHANGED <<rooms, user_rooms, sio_rooms>>
          ELSE LET subs == LeaveRoom(sio_rooms, sid, room_id)
               IN /\ rooms' = RemoveMember(rooms, user_id, room_id)
                  /\ user_rooms' = RemoveSession(user_rooms, sid)
                  /\ sio_rooms' = subs
                  /\ out' = <<EmitSelf(sid, "leaved", UserRoom(user_id, room_id)),
                              EmitRoom(subs, room_id, None, "user-left",
                                       UserRoom(user_id, room_id))>>

handle_leave(sid, data) ==
    /\ conn[sid] = "open"
    /\ UNCHANGED conn
    /\ LET user_id == data.userId
           room_id == data.roomId
       IN IF Invalid(user_id, room_id)
          THEN /\ out' = <<EmitSelf(sid, "error", ErrorData)>>
               /\ UNCHANGED <<rooms, user_rooms, sio_rooms>>
          ELSE LET subs == LeaveRoom(sio_rooms, sid, room_id)
               IN /\ rooms' = RemoveMember(rooms, user_id, room_id)
                  /\ user_rooms' = RemoveSession(user_rooms, sid)
                  /\ sio_rooms' = subs
                  /\ out' = <<EmitSelf(sid, "leaved", UserRoom(user_id, room_id)),
                              EmitRoom(subs, room_id, None, "user-left",
                                       UserRoom(user_id, room_id))>>

handle_message(sid, data) ==
    /\ conn[sid] = "open"
    /\ UNCHANGED <<rooms, user_rooms, sio_rooms, conn>>
    /\ LET room_id == data.roomId
       IN IF ~Falsy(room_id)
          THEN out' = <<EmitRoom(sio_rooms, room_id, sid, "message", data)>>
          ELSE out' = <<>>

\* What a client can send with join / leave and with message.
JoinData == {UserRoom(u, r) : u \in UserInputs, r \in RoomInputs}
MessageData == {[NoData EXCEPT !.roomId = r, !.payload = p] :
                    r \in RoomInputs, p \in Payloads}

\* A step of the server: the transport delivers one event to its handler.
\* The history variables record which events each connection has sent.
Observe(op, sid, data) ==
    /\ last' = [op |-> op, sid |-> sid, data |-> data]
    /\ events' = IF op \in {"connect", "message"} THEN events ELSE events + 1
    /\ joined' = IF op = "join" /\ ~Falsy(data.userId) /\ ~Falsy(data.roomId)
                 THEN [joined EXCEPT ![sid] =
                          @ \cup {[userId |-> data.userId, roomId |-> data.roomId]}]
                 ELSE joined
    /\ left' = IF op = "leave" THEN left \cup {sid} ELSE left

Connect(sid) ==
    /\ handle_connect(sid)
    /\ Observe("connect", sid, NoData)
    /\ UNCHANGED threads

Disconnect(sid) ==
    /\ handle_disconnect(sid)
    /\ Observe("disconnect", sid, NoData)
    /\ UNCHANGED threads

Join(sid, data) ==
    /\ handle_join(sid, data)
    /\ Observe("join", sid, data)
    /\ UNCHANGED threads

Leave(sid, data) ==
    /\ handle_leave(sid, data)
    /\ Observe("leave", sid, data)
    /\ UNCHANGED threads

Message(sid, data) ==
    /\ handle_message(sid, data)
    /\ Observe("message", sid, data)
    /\ UNCHANGED threads

\* Arbitrary clients: any connection sends any event, in any order.
Next ==
    \/ \E sid \in Sids :
          Connect(sid) /\ UNCHANGED <<test, client>>
    \/ \E sid \in Sids :
          events < MaxEvents /\ Disconnect(sid) /\ UNCHANGED <<test, client>>
    \/ \E sid \in Sids, data \in JoinData :
          events < MaxEvents /\ Join(sid, data) /\ UNCHANGED <<test, client>>
    \/ \E sid \in Sids, data \in JoinData :
          events < MaxEvents /\ Leave(sid, data) /\ UNCHANGED <<test, client>>
    \/ \E sid \in Sids, data \in MessageData :
          Message(sid, data) /\ UNCHANGED <<test, client>>

Spec == Init /\ [][Next]_vars

\* ------------------------------------------------- client_test.py auto_test

\* clients: the first num_users connections
Clients == {SidNames[i] : i \in 1..test.num_users}

\* user_id = f'user{i+1}' for the i-th client
UserOf(c) == UserNames[CHOOSE i \in 1..NumConns : SidNames[i] = c]

\* auto_test(num_users, room_id) is called; nothing has happened yet
TestInit ==
    /\ ServerInit
    /\ ThreadInit
    /\ test \in [num_users : 1..NumConns, room_id : RoomIds]
    /\ client = ClientInit

\* client.connect(), for each client
TestConnect(c) ==
    /\ c \in Clients
    /\ Connect(c)
    /\ UNCHANGED <<test, client>>

\* scenario 1: client.join_room(user_id, room_id), once every client is connected
TestJoin(c) ==
    /\ c \in Clients
    /\ \A d \in Clients : conn[d] = "open"
    /\ client[c].user_id = None
    /\ client' = [client EXCEPT ![c] = [user_id |-> UserOf(c), room_id |-> test.room_id]]
    /\ Join(c, UserRoom(UserOf(c), test.room_id))
    /\ UNCHANGED test

\* scenarios 2 and 3: client.leave_room(), once every client has joined
TestLeave(c) ==
    /\ c \in Clients
    /\ \A d \in Clients : client[d].user_id # None
    /\ c \notin left
    /\ ~Falsy(client[c].user_id) /\ ~Falsy(client[c].room_id)
    /\ Leave(c, UserRoom(client[c].user_id, client[c].room_id))
    /\ UNCHANGED <<test, client>>

\* clean-up: client.disconnect(), once every client has left
TestDisconnect(c) ==
    /\ c \in Clients
    /\ Clients \subseteq left
    /\ Disconnect(c)
    /\ UNCHANGED <<test, client>>

TestNext ==
    \/ \E c \in Sids : TestConnect(c)
    \/ \E c \in Sids : TestJoin(c)
    \/ \E c \in Sids : TestLeave(c)
    \/ \E c \in Sids : TestDisconnect(c)

SpecAutoTest == TestInit /\ [][TestNext]_vars

\* ------------------------------------------- handlers running concurrently
\* server.py takes no lock, and Flask-SocketIO runs each event's handler in
\* a task of its own (a thread, in threading mode): the statements of the
\* handlers of different connections interleave. Here every statement that
\* reads or writes `rooms` or `user_rooms` is a step of its own. A statement
\* that looks up or deletes an absent key raises KeyError, which ends the
\* handler: pc = "KeyError". The clients send joins and leaves that pass the
\* validation, and disconnect. handle_connect touches neither mapping and
\* commutes with every step: connections are opened between handlers.

\* The sids whose handler is running.
InFlight == {c \in Sids : pc[c] \notin {"idle", "KeyError"}}

ValidData == {UserRoom(u, r) : u \in UserIds, r \in RoomIds}

\* What a statement of the handler of sid leaves alone.
Step(sid, label) ==
    /\ pc[sid] = label
    /\ UNCHANGED <<conn, last, joined, left, events, snap, test, client>>

Goto(sid, label) == pc' = [pc EXCEPT ![sid] = label]

Raise(sid) ==
    /\ Goto(sid, "KeyError")
    /\ UNCHANGED <<rooms, user_rooms, sio_rooms, req>>
    /\ out' = <<>>

Return(sid) ==
    /\ Goto(sid, "idle")
    /\ req' = [req EXCEPT ![sid] = NoReq]

\* An event of sid arrives and its handler starts: at most MaxThreads
\* handlers run together, one per connection.
Begin(sid, op, data) ==
    /\ conn[sid] = "open"
    /\ pc[sid] = "idle"
    /\ events < MaxEvents
    /\ \/ InFlight = {}
       \/ Len(snap.ops) < MaxThreads
    /\ snap' = LET o == [op |-> op, sid |-> sid,
                         userId |-> data.userId, roomId |-> data.roomId]
               IN IF InFlight = {}
                  THEN [rooms |-> rooms, user_rooms |-> user_rooms, ops |-> <<o>>]
                  ELSE [snap EXCEPT !.ops = Append(@, o)]
    /\ req' = [req EXCEPT ![sid] =
                  [op |-> op, userId |-> data.userId, roomId |-> data.roomId]]
    /\ Goto(sid, CASE op = "join" -> "J_check"
                   [] op = "leave" -> "R_check"
                   [] op = "disconnect" -> "D_session")
    /\ conn' = IF op = "disconnect" THEN [conn EXCEPT ![sid] = "closed"] ELSE conn
    /\ out' = <<>>
    /\ Observe(op, sid, data)
    /\ UNCHANGED <<rooms, user_rooms, sio_rooms, test, client>>

BeginJoin(sid, data) == Begin(sid, "join", data)

BeginLeave(sid, data) == Begin(sid, "leave", data)

BeginDisconnect(sid) == Begin(sid, "disconnect", NoData)

\* if room_id not in rooms:
J_check(sid) ==
    /\ Step(sid, "J_check")
    /\ Goto(sid, IF req[sid].roomId \notin DOMAIN rooms THEN "J_create" ELSE "J_insert")
    /\ out' = <<>>
    /\ UNCHANGED <<rooms, user_rooms, sio_rooms, req>>

\* rooms[room_id] = {}
J_create(sid) ==
    /\ Step(sid, "J_create")
    /\ rooms' = [r \in DOMAIN rooms \cup {req[sid].roomId} |->
                    IF r = req[sid].roomId THEN EmptyDict ELSE rooms[r]]
    /\ Goto(sid, "J_insert")
    /\ out' = <<>>
    /\ UNCHANGED <<user_rooms, sio_rooms, req>>

\* rooms[room_id][user_id] = sid
J_insert(sid) ==
    /\ Step(sid, "J_insert")
    /\ IF req[sid].roomId \in DOMAIN rooms
       THEN /\ rooms' = [rooms EXCEPT ![req[sid].roomId] =
                            DictSet(@, req[sid].userId, sid)]
            /\ Goto(sid, "J_session")
            /\ out' = <<>>
            /\ UNCHANGED <<user_rooms, sio_rooms, req>>
       ELSE Raise(sid)

\* user_rooms[sid] = {'userId': user_id, 'roomId': room_id}
J_session(sid) ==
    /\ Step(sid, "J_session")
    /\ user_rooms' = SetSession(user_rooms, sid, req[sid].userId, req[sid].roomId)
    /\ Goto(sid, "J_subscribe")
    /\ out' = <<>>
    /\ UNCHANGED <<rooms, sio_rooms, req>>

\* join_room(room_id)
J_subscribe(sid) ==
    /\ Step(sid, "J_subscribe")
    /\ sio_rooms' = JoinRoom(sio_rooms, sid, req[sid].roomId)
    /\ Goto(sid, "J_reply")
    /\ out' = <<>>
    /\ UNCHANGED <<rooms, user_rooms, req>>

\* users_in_room = list(rooms[room_id].keys()) and the two emits
J_reply(sid) ==
    /\ Step(sid, "J_reply")
    /\ IF req[sid].roomId \in DOMAIN rooms
       THEN /\ out' = <<EmitSelf(sid, "joined",
                           [UserRoom(req[sid].userId, req[sid].roomId) EXCEPT
                               !.users = UsersInRoom(rooms, req[sid].roomId)]),
                        EmitRoom(sio_rooms, req[sid].roomId, sid, "user-joined",
                                 UserRoom(req[sid].userId, req[sid].roomId))>>
            /\ Return(sid)
            /\ UNCHANGED <<rooms, user_rooms, sio_rooms>>
       ELSE Raise(sid)

\* handle_disconnect: if sid in user_rooms: user_info = user_rooms[sid] ...
\* Without a session the handler returns and Socket.IO drops the connection.
D_session(sid) ==
    /\ Step(sid, "D_session")
    /\ out' = <<>>
    /\ IF sid \in DOMAIN user_rooms
       THEN /\ req' = [req EXCEPT ![sid].userId = user_rooms[sid].userId,
                                  ![sid].roomId = user_rooms[sid].roomId]
            /\ Goto(sid, "R_check")
            /\ UNCHANGED <<rooms, user_rooms, sio_rooms>>
       ELSE /\ Return(sid)
            /\ sio_rooms' = DropFromAllRooms(sio_rooms, sid)
            /\ UNCHANGED <<rooms, user_rooms>>

\* _remove_user_from_room: if room_id in rooms and user_id in rooms[room_id]:
R_check(sid) ==
    /\ Step(sid, "R_check")
    /\ Goto(sid, IF /\ req[sid].roomId \in DOMAIN rooms
                    /\ DictHas(rooms[req[sid].roomId], req[sid].userId)
                 THEN "R_del_user" ELSE "R_has_session")
    /\ out' = <<>>
    /\ UNCHANGED <<rooms, user_rooms, sio_rooms, req>>

\* del rooms[room_id][user_id]
R_del_user(sid) ==
    /\ Step(sid, "R_del_user")
    /\ IF /\ req[sid].roomId \in DOMAIN rooms
          /\ DictHas(rooms[req[sid].roomId], req[sid].userId)
       THEN /\ rooms' = [rooms EXCEPT ![req[sid].roomId] =
                            DictDel(@, req[sid].userId)]
            /\ Goto(sid, "R_is_empty")
            /\ out' = <<>>
            /\ UNCHANGED <<user_rooms, sio_rooms, req>>
       ELSE Raise(sid)

\* if not rooms[room_id]:
R_is_empty(sid) ==
    /\ Step(sid, "R_is_empty")
    /\ IF req[sid].roomId \in DOMAIN rooms
       THEN /\ Goto(sid, IF rooms[req[sid].roomId] = EmptyDict
                         THEN "R_del_room" ELSE "R_has_session")
            /\ out' = <<>>
            /\ UNCHANGED <<rooms, user_rooms, sio_rooms, req>>
       ELSE Raise(sid)

\* del rooms[room_id]
R_del_room(sid) ==
    /\ Step(sid, "R_del_room")
    /\ IF req[sid].roomId \in DOMAIN rooms
       THEN /\ rooms' = [r \in DOMAIN rooms \ {req[sid].roomId} |-> rooms[r]]
            /\ Goto(sid, "R_has_session")
            /\ out' = <<>>
            /\ UNCHANGED <<user_rooms, sio_rooms, req>>
       ELSE Raise(sid)

\* What follows _remove_user_from_room in the handler that called it.
AfterRemove(sid) == IF req[sid].op = "leave" THEN "L_reply" ELSE "D_reply"

\* if sid in user_rooms:
R_has_session(sid) ==
    /\ Step(sid, "R_has_session")
    /\ Goto(sid, IF sid \in DOMAIN user_rooms THEN "R_del_session" ELSE AfterRemove(sid))
    /\ out' = <<>>
    /\ UNCHANGED <<rooms, user_rooms, sio_rooms, req>>

\* del user_rooms[sid]
R_del_session(sid) ==
    /\ Step(sid, "R_del_session")
    /\ IF sid \in DOMAIN user_rooms
       THEN /\ user_rooms' = RemoveSession(user_rooms, sid)
            /\ Goto(sid, AfterRemove(sid))
            /\ out' = <<>>
            /\ UNCHANGED <<rooms, sio_rooms, req>>
       ELSE Raise(sid)

\* handle_leave: leave_room(room_id) and the two emits
L_reply(sid) ==
    /\ Step(sid, "L_reply")
    /\ LET subs == LeaveRoom(sio_rooms, sid, req[sid].roomId)
       IN /\ sio_rooms' = subs
          /\ out' = <<EmitSelf(sid, "leaved", UserRoom(req[sid].userId, req[sid].roomId)),
                      EmitRoom(subs, req[sid].roomId, None, "user-left",
                               UserRoom(req[sid].userId, req[sid].roomId))>>
    /\ Return(sid)
    /\ UNCHANGED <<rooms, user_rooms>>

\* handle_disconnect: the emit; then Socket.IO drops the connection
D_reply(sid) ==
    /\ Step(sid, "D_reply")
    /\ out' = <<EmitRoom(sio_rooms, req[sid].roomId, sid, "user-left",
                         UserRoom(req[sid].userId, req[sid].roomId))>>
    /\ sio_rooms' = DropFromAllRooms(sio_rooms, sid)
    /\ Return(sid)
    /\ UNCHANGED <<rooms, user_rooms>>

ConcNext ==
    \/ \E sid \in Sids : InFlight = {} /\ Connect(sid) /\ UNCHANGED <<test, client>>
    \/ \E sid \in Sids, data \in ValidData : BeginJoin(sid, data)
    \/ \E sid \in Sids, data \in ValidData : BeginLeave(sid, data)
    \/ \E sid \in Sids : BeginDisconnect(sid)
    \/ \E sid \in Sids : J_check(sid)
    \/ \E sid \in Sids : J_create(sid)
    \/ \E sid \in Sids : J_insert(sid)
    \/ \E sid \in Sids : J_session(sid)
    \/ \E sid \in Sids : J_subscribe(sid)
    \/ \E sid \in Sids : J_reply(sid)
    \/ \E sid \in Sids : D_session(sid)
    \/ \E sid \in Sids : R_check(sid)
    \/ \E sid \in Sids : R_del_user(sid)
    \/ \E sid \in Sids : R_is_empty(sid)
    \/ \E sid \in Sids : R_del_room(sid)
    \/ \E sid \in Sids : R_has_session(sid)
    \/ \E sid \in Sids : R_del_session(sid)
    \/ \E sid \in Sids : L_reply(sid)
    \/ \E sid \in Sids : D_reply(sid)

SpecConcurrent == Init /\ [][ConcNext]_vars

\* ------------------------------------------------------------------ claims

\* The member entries of room R as a set of <<userId, sid>> pairs.
Members(rs, R) ==
    IF R \in DOMAIN rs THEN {<<rs[R][i].k, rs[R][i].v>> : i \in 1..Len(rs[R])} ELSE {}

IsMember(rs, U, R) == \E e \in Members(rs, R) : e[1] = U

Occupants(rs, R) == {e[2] : e \in Members(rs, R)}

Session(U, R) == [userId |-> U, roomId |-> R]

\* C1 (invariant I1): for every room R of `rooms` and every entry u -> c of R,
\* `user_rooms` has an entry for c whose value is (u, R).
I1_MemberHasSession ==
    \A R \in DOMAIN rooms : \A e \in Members(rooms, R) :
        e[2] \in DOMAIN user_rooms /\ user_rooms[e[2]] = Session(e[1], R)

\* C2 (invariant I2): for every session c -> (u, r) of `user_rooms`, room r is
\* in `rooms` and rooms[r][u] is c.
I2_SessionHasMember ==
    \A c \in DOMAIN user_rooms :
        <<user_rooms[c].userId, c>> \in Members(rooms, user_rooms[c].roomId)

\* C3 (invariant I3): no key of `rooms` maps to an empty member mapping.
I3_NoEmptyRoom ==
    \A R \in DOMAIN rooms : rooms[R] # EmptyDict

\* C3 witness: a room that a join created has been destroyed again by the
\* removal of its last member, while another room still has members.
I3_Witness ==
    \E R1 \in RoomIds, R2 \in RoomIds :
        /\ R1 \notin DOMAIN rooms
        /\ \E c \in Sids, U \in UserIds : Session(U, R1) \in joined[c]
        /\ R2 \in DOMAIN rooms

\* C4 (no leak on disconnect): a disconnected connection has no session and is
\* the occupant of no member entry; once every connection has disconnected,
\* both mappings are empty.
NoLeakOnDisconnect ==
    /\ \A c \in Sids : conn[c] = "closed" =>
          /\ c \notin DOMAIN user_rooms
          /\ \A R \in DOMAIN rooms : c \notin Occupants(rooms, R)
    /\ (\A c \in Sids : conn[c] = "closed") =>
          (DOMAIN rooms = {} /\ DOMAIN user_rooms = {})

\* Some emit call of the step delivered `event` with `data` to connection c.
Delivered(o, c, event, data) ==
    \E i \in 1..Len(o) : o[i].event = event /\ o[i].data = data /\ c \in o[i].to

\* The connections some emit call of the step delivered `event` to.
Recipients(o, event) ==
    UNION {o[i].to : i \in {j \in 1..Len(o) : o[j].event = event}}

\* C5 (disconnect cleanup): if c joined room R as user U and never sent a
\* leave, then the disconnect of c removes U from R, destroys
\* R when U was its sole member, delivers user-left for (U, R) to every
\* remaining member of R, and leaves c without a session.
DisconnectCleanup ==
    [][\A c \in Sids, U \in UserIds, R \in RoomIds :
        (last'.op = "disconnect" /\ last'.sid = c /\ conn[c] = "open"
            /\ Session(U, R) \in joined[c] /\ c \notin left) =>
            /\ ~IsMember(rooms', U, R)
            /\ ({e[1] : e \in Members(rooms, R)} = {U} => R \notin DOMAIN rooms')
            /\ \A m \in Occupants(rooms', R) :
                   Delivered(out', m, "user-left", UserRoom(U, R))
            /\ c \notin DOMAIN user_rooms']_vars

\* C6 (idempotent leave): a leave(c, U, R) handled while U is not a member of
\* R delivers no user-left event to any connection.
IdempotentLeave ==
    [][(/\ last'.op = "leave"
        /\ last'.data.userId \in UserIds /\ last'.data.roomId \in RoomIds
        /\ ~IsMember(rooms, last'.data.userId, last'.data.roomId)) =>
            Recipients(out', "user-left") = {}]_vars

\* A userId or roomId that is missing or empty.
MissingOrEmpty(x) == x \in {None, ""}

\* C7 (validation): a join or leave whose userId or roomId is missing or
\* empty emits exactly one event, `error` to the originating connection, and
\* leaves rooms, user_rooms and the Socket.IO room membership unchanged.
Validation ==
    [][(/\ last'.op \in {"join", "leave"}
        /\ (MissingOrEmpty(last'.data.userId) \/ MissingOrEmpty(last'.data.roomId))) =>
            /\ Len(out') = 1
            /\ out'[1].event = "error" /\ out'[1].to = {last'.sid}
            /\ rooms' = rooms /\ user_rooms' = user_rooms /\ sio_rooms' = sio_rooms]_vars

\* C7 witness: an invalid join or leave has just been answered by `error`
\* while rooms, sessions and subscriptions existed that it could have changed.
Validation_Witness ==
    /\ last.op = "leave"
    /\ MissingOrEmpty(last.data.roomId)
    /\ Len(out) = 1 /\ out[1].event = "error" /\ out[1].to = {last.sid}
    /\ last.sid \in DOMAIN user_rooms
    /\ DOMAIN rooms # {}

\* C9 (join result): for a valid join(c, U, R) the `joined` reply goes to c
\* and lists exactly the keys of rooms[R] after the insertion, U and every
\* earlier member among them, and user-joined is not delivered to c.
JoinResult ==
    [][(/\ last'.op = "join"
        /\ last'.data.userId \in UserIds /\ last'.data.roomId \in RoomIds) =>
            LET c == last'.sid
                U == last'.data.userId
                R == last'.data.roomId
            IN /\ \E i \in 1..Len(out') :
                     /\ out'[i].event = "joined" /\ out'[i].to = {c}
                     /\ LET listed == {out'[i].data.users[j] :
                                         j \in 1..Len(out'[i].data.users)}
                        IN /\ listed = {e[1] : e \in Members(rooms', R)}
                           /\ U \in listed
                           /\ {e[1] : e \in Members(rooms, R)} \subseteq listed
               /\ c \notin Recipients(out', "user-joined")]_vars

\* C9 witness: a join into a room that already had a member has been answered:
\* the reply lists two users and user-joined went to another connection.
JoinResult_Witness ==
    /\ last.op = "join"
    /\ Len(out) = 2
    /\ out[1].event = "joined" /\ out[1].to = {last.sid}
    /\ Len(out[1].data.users) >= 2
    /\ out[2].event = "user-joined" /\ out[2].to # {}

\* c has joined room R, has sent no leave and is still connected.
InRoom(c, R) ==
    /\ conn[c] = "open"
    /\ c \notin left
    /\ \E U \in UserIds : Session(U, R) \in joined[c]

\* c1, c2, c3 are three connections that joined R under distinct userIds.
ThreeInRoom(c1, c2, c3, R) ==
    /\ c1 # c2 /\ c1 # c3 /\ c2 # c3
    /\ InRoom(c1, R) /\ InRoom(c2, R) /\ InRoom(c3, R)
    /\ \E U1 \in UserIds, U2 \in UserIds, U3 \in UserIds :
          /\ U1 # U2 /\ U1 # U3 /\ U2 # U3
          /\ Session(U1, R) \in joined[c1]
          /\ Session(U2, R) \in joined[c2]
          /\ Session(U3, R) \in joined[c3]

\* C10 (relay fan-out): with c1, c2, c3 joined to R, a message from c1 naming
\* R is delivered with its data unchanged to c2 and to c3 and not to c1.
RelayFanOut ==
    [][\A c2 \in Sids, c3 \in Sids :
        (/\ last'.op = "message"
         /\ last'.data.roomId \in RoomIds
         /\ ThreeInRoom(last'.sid, c2, c3, last'.data.roomId)) =>
            /\ Delivered(out', c2, "message", last'.data)
            /\ Delivered(out', c3, "message", last'.data)
            /\ last'.sid \notin Recipients(out', "message")
            /\ \A i \in 1..Len(out') : out'[i].data = last'.data]_vars

\* C10 witness: three connections are joined to one room and a message of one
\* of them has just been relayed to the other two.
RelayFanOut_Witness ==
    \E c2 \in Sids, c3 \in Sids :
        /\ last.op = "message"
        /\ ThreeInRoom(last.sid, c2, c3, last.data.roomId)
        /\ Len(out) = 1
        /\ out[1].event = "message" /\ out[1].data = last.data
        /\ out[1].to = {c2, c3}

\* The clients of auto_test that have joined and not yet left.
InTestRoom == {c \in Clients : joined[c] # {} /\ c \notin left}

\* C8 (room lifecycle over auto_test): the room exists exactly while some
\* client has joined and not yet left (created by the first join, kept by
\* every leave but the last, gone after the last), only that room ever
\* exists, and once every client has left both mappings are empty and stay
\* empty through the disconnects.
RoomLifecycle ==
    /\ (test.room_id \in DOMAIN rooms) <=> (InTestRoom # {})
    /\ DOMAIN rooms \subseteq {test.room_id}
    /\ (Clients \subseteq left) => (DOMAIN rooms = {} /\ DOMAIN user_rooms = {})

\* C8 witness: auto_test has run to its end with every connection taking
\* part: all joined, all left, all disconnected.
RoomLifecycle_Witness ==
    /\ test.num_users = NumConns
    /\ \A c \in Clients : joined[c] # {} /\ c \in left /\ conn[c] = "closed"

\* The step handled a join or leave with a userId and a roomId.
ValidStep(l, op) ==
    l.op = op /\ l.data.userId \in UserIds /\ l.data.roomId \in RoomIds

\* C11: a connection is never a member of two rooms: for every connection c
\* at most one room of `rooms` has an entry whose occupant is c.
SingleRoomPerConnection ==
    \A c \in Sids :
        Cardinality({R \in DOMAIN rooms : c \in Occupants(rooms, R)}) <= 1

\* How often x occurs in the sequence q.
Count(q, x) == Cardinality({i \in 1..Len(q) : q[i] = x})

\* C12 (join replace): when U is in R under connection C1 and C2 # C1 joins
\* R as U, rooms[R][U] becomes C2, U occurs exactly once in the users list
\* of the reply to C2, and no other entry of R changes.
JoinReplace ==
    [][\A c1 \in Sids :
        (/\ ValidStep(last', "join")
         /\ c1 # last'.sid
         /\ <<last'.data.userId, c1>> \in Members(rooms, last'.data.roomId)) =>
            LET c2 == last'.sid
                U == last'.data.userId
                R == last'.data.roomId
            IN /\ R \in DOMAIN rooms'
               /\ DictGet(rooms'[R], U) = c2
               /\ Count(DictKeys(rooms'[R]), U) = 1
               /\ out'[1].event = "joined" /\ out'[1].to = {c2}
               /\ Count(out'[1].data.users, U) = 1
               /\ Members(rooms', R) \ {<<U, c2>>} = Members(rooms, R) \ {<<U, c1>>}]_vars

\* C12 witness: a connection has just joined as a user that another, still
\* connected connection had joined as (and never left), in a room with a
\* second member; the entry now names the newcomer.
JoinReplace_Witness ==
    /\ ValidStep(last, "join")
    /\ last.data.roomId \in DOMAIN rooms
    /\ Len(rooms[last.data.roomId]) >= 2
    /\ DictGet(rooms[last.data.roomId], last.data.userId) = last.sid
    /\ \E c1 \in Sids \ {last.sid} :
          /\ joined[c1] = {Session(last.data.userId, last.data.roomId)}
          /\ c1 \notin left /\ conn[c1] = "open"

\* The mappings after the handler of event o has run alone from the mappings st.
ApplyOp(st, o) ==
    CASE o.op = "join" ->
           [rooms |-> AddUser(CreateRoom(st.rooms, o.roomId), o.sid, o.userId, o.roomId),
            user_rooms |-> SetSession(st.user_rooms, o.sid, o.userId, o.roomId)]
      [] o.op = "leave" ->
           [rooms |-> RemoveMember(st.rooms, o.userId, o.roomId),
            user_rooms |-> RemoveSession(st.user_rooms, o.sid)]
      [] o.op = "disconnect" ->
           IF o.sid \in DOMAIN st.user_rooms
           THEN [rooms |-> RemoveMember(st.rooms, st.user_rooms[o.sid].userId,
                                        st.user_rooms[o.sid].roomId),
                 user_rooms |-> RemoveSession(st.user_rooms, o.sid)]
           ELSE st

RECURSIVE ApplyAll(_, _, _, _)
\* The mappings after the events ops[p[i]], ..., ops[p[n]] have run in turn.
ApplyAll(st, ops, p, i) ==
    IF i > Len(ops) THEN st ELSE ApplyAll(ApplyOp(st, ops[p[i]]), ops, p, i + 1)

\* The mappings every serial order of the events ops produces from st.
SerialOutcomes(st, ops) ==
    {ApplyAll(st, ops, p, 1) : p \in Permutations(1..Len(ops))}

\* C13: when handlers of different connections have run interleaved and have
\* all returned, `rooms` and `user_rooms` are what some serial order of
\* these handlers produces from the mappings they started with.
Serializable ==
    (/\ InFlight = {}
     /\ \A c \in Sids : pc[c] # "KeyError"
     /\ Len(snap.ops) >= 1) =>
        [rooms |-> rooms, user_rooms |-> user_rooms] \in
            SerialOutcomes([rooms |-> snap.rooms, user_rooms |-> snap.user_rooms],
                           snap.ops)

\* C14: no handler reaches a look-up or a deletion of an absent key.
NoKeyError == \A c \in Sids : pc[c] # "KeyError"

\* C15: after a leave(c, U, R) with non-empty U and R, c has no session,
\* whatever its session recorded.
LeaveClearsSession ==
    [][ValidStep(last', "leave") => last'.sid \notin DOMAIN user_rooms']_vars

\* C15 witness: a connection joined one (userId, roomId), then sent a leave
\* naming another pair, and has no session.
LeaveClearsSession_Witness ==
    /\ ValidStep(last, "leave")
    /\ events = 2
    /\ \E s \in joined[last.sid] : s # Session(last.data.userId, last.data.roomId)
    /\ last.sid \notin DOMAIN user_rooms

\* C16: a leave naming a room that does not exist or a user that is not a
\* member of it emits no `error`, acknowledges with `leaved` to the caller
\* and leaves `rooms` unchanged.
LeaveOfNonMember ==
    [][(/\ ValidStep(last', "leave")
        /\ ~IsMember(rooms, last'.data.userId, last'.data.roomId)) =>
            /\ \A i \in 1..Len(out') : out'[i].event # "error"
            /\ out'[1] = EmitSelf(last'.sid, "leaved",
                                  UserRoom(last'.data.userId, last'.data.roomId))
            /\ rooms' = rooms]_vars

\* C16 witness: a leave named a (userId, roomId) nobody ever joined, while
\* rooms existed, and was acknowledged.
LeaveOfNonMember_Witness ==
    /\ ValidStep(last, "leave")
    /\ \A c \in Sids : Session(last.data.userId, last.data.roomId) \notin joined[c]
    /\ DOMAIN rooms # {}
    /\ out[1].event = "leaved" /\ out[1].to = {last.sid}

\* C17: the disconnect of a connection that has no session changes neither
\* `rooms` nor `user_rooms` and emits nothing.
DisconnectWithoutSession ==
    [][(/\ last'.op = "disconnect"
        /\ last'.sid \notin DOMAIN user_rooms) =>
            /\ rooms' = rooms
            /\ user_rooms' = user_rooms
            /\ out' = <<>>]_vars

\* C17 witness: a connection that still occupies a member entry but has no
\* session (it sent a leave naming another user) has disconnected.
DisconnectWithoutSession_Witness ==
    /\ last.op = "disconnect"
    /\ out = <<>>
    /\ \E R \in DOMAIN rooms : last.sid \in Occupants(rooms, R)

\* C18: a leave or disconnect of connection c never deletes a member entry
\* whose occupant is another connection.
RemovesOnlyOwnMembership ==
    [][last'.op \in {"leave", "disconnect"} =>
        \A R \in DOMAIN rooms : \A e \in Members(rooms, R) :
            e[2] # last'.sid => e \in Members(rooms', R)]_vars

\* C19: for every room id R the subscribers of the Socket.IO room R are the
\* occupants of rooms[R] (none when R is not in `rooms`).
AudienceAgreesWithDirectory ==
    \A R \in RoomIds : sio_rooms[R] = Occupants(rooms, R)

\* C20 (session isolation): a step handled for connection c leaves the
\* session of every other connection as it was, and a message changes
\* neither `rooms` nor `user_rooms`.
SessionIsolation ==
    [][/\ \A c \in Sids \ {last'.sid} :
            /\ (c \in DOMAIN user_rooms') <=> (c \in DOMAIN user_rooms)
            /\ c \in DOMAIN user_rooms => user_rooms'[c] = user_rooms[c]
       /\ last'.op = "message" => (rooms' = rooms /\ user_rooms' = user_rooms)]_vars

\* C20 witness: a connection without a session has relayed a message into a
\* room whose members, with their sessions, received it.
SessionIsolation_Witness ==
    /\ last.op = "message"
    /\ last.sid \notin DOMAIN user_rooms
    /\ Len(out) = 1 /\ out[1].to # {}
    /\ \E c \in out[1].to : c \in DOMAIN user_rooms

====
